---- MODULE Spec2Model ----
(***************************************************************************)
(* A model of gmsync.py (src/gmusicapi_scripts/gmsync.py): one run of      *)
(* main(), from the parsed command line to logout, with the reconciliation *)
(* steps of the "up" and "down" commands, the removed-file step and the    *)
(* playlist / favorites derivation.                                        *)
(*                                                                         *)
(* Song identity.  A remote (music-manager) song is a record [id, tag]:    *)
(* id is its remote identifier, tag stands for the normalised metadata     *)
(* tuple compare_song_collections compares.  A local song is a record      *)
(* [path]; its tag is read from the file (fs[path]) when it is compared.   *)
(* A mobile-client song is [id, rating, lastModifiedTimestamp]; a playlist *)
(* entry is [id, trackId] where id is the entry's own identifier.          *)
(*                                                                         *)
(* Scope.  Every modelled path lies under the scanned base path (the       *)
(* default output template), and the removed directory lies outside it.    *)
(***************************************************************************)
EXTENDS Integers, Sequences, FiniteSets, TLC

\* ---------------------------------------------------------------- bounds
NumIds == 3        \* remote identifiers 1..NumIds
NumTags == 2       \* distinct metadata tuples 1..NumTags
NumOther == 1      \* local paths that no output template resolves to
MaxTracks == 2     \* entries of a playlist
MaxStamp == 1      \* lastModifiedTimestamp values 1..MaxStamp
DeepTracks == 4    \* entries of a playlist, deriver specification
DeepStamp == 3     \* lastModifiedTimestamp values, deriver specification

Ids == 1 .. NumIds
Tags == 1 .. NumTags
Paths == 1 .. (NumOther + NumTags)
Ratings == {3, 4}
DeepRatings == {0, 3, 4, 5}

\* The metadata tuple of remote song i.  Two remote songs may carry the same
\* tags (a duplicate upload): ids that agree modulo NumTags do.
TagOf(i) == ((i - 1) % NumTags) + 1

GoogleSong(i) == [id |-> i, tag |-> TagOf(i)]

\* template_to_filepath(cli['output'], song): the output path of a song is a
\* function of its metadata.  Paths 1..NumOther are files no song resolves to.
template_to_filepath(tag) == NumOther + tag

\* ------------------------------------------------------------- sequences
Range(s) == {s[i] : i \in DOMAIN s}

RECURSIVE SeqOfSet(_)
\* The elements of a finite set of integers, ascending.
SeqOfSet(S) ==
    IF S = {} THEN <<>>
    ELSE LET m == CHOOSE x \in S : \A y \in S : x <= y
         IN <<m>> \o SeqOfSet(S \ {m})

RECURSIVE SeqsUpTo(_, _)
\* Every sequence over S of length at most n.
SeqsUpTo(S, n) ==
    IF n = 0 THEN {<<>>}
    ELSE LET shorter == SeqsUpTo(S, n - 1)
         IN shorter \cup {Append(s, x) : s \in shorter, x \in S}

\* list.sort(key=...): a stable sort.  ps is a sequence of <<key, item>>.
InsertPair(p, sorted) ==
    LET n == Cardinality({i \in DOMAIN sorted : sorted[i][1] <= p[1]})
    IN SubSeq(sorted, 1, n) \o <<p>> \o SubSeq(sorted, n + 1, Len(sorted))

RECURSIVE SortPairs(_)
SortPairs(ps) ==
    IF ps = <<>> THEN <<>>
    ELSE InsertPair(ps[Len(ps)], SortPairs(SubSeq(ps, 1, Len(ps) - 1)))

Items(ps) == [i \in DOMAIN ps |-> ps[i][2]]

\* ------------------------------------------------- external collaborators
\* gmusicapi_wrapper: compare_song_collections, get_local_songs.
\* The field values a song is compared by: a local song's are read from its
\* file, a remote song carries them.
gather_field_values(song, files) ==
    IF "path" \in DOMAIN song THEN files[song.path] ELSE song.tag

\* The songs of src whose field values no song of dest has, in src's order.
compare_song_collections(src_songs, dest_songs, files) ==
    LET dest_metadata == {gather_field_values(dest_songs[i], files) : i \in DOMAIN dest_songs}
    IN SelectSeq(src_songs, LAMBDA song : gather_field_values(song, files) \notin dest_metadata)

LocalSongs(P) == [i \in DOMAIN SeqOfSet(P) |-> [path |-> SeqOfSet(P)[i]]]

\* The local scan: files under an exclude pattern go to the excluded bucket,
\* of the others the ones the field filters reject go to the filtered bucket.
get_local_songs(files, exclude_patterns, rejected_tags) ==
    LET present == DOMAIN files
        excl == {p \in present : p \in exclude_patterns}
        filt == {p \in present \ excl : files[p] \in rejected_tags}
    IN [matched |-> LocalSongs((present \ excl) \ filt),
        filtered |-> LocalSongs(filt),
        excluded |-> LocalSongs(excl)]

\* ------------------------------------------------------ gmsync.py helpers
\* get id, prioritize trackId over id
songid(track) == IF "trackId" \in DOMAIN track THEN track.trackId ELSE track.id

\* reduce(songs_to_dict, songs, {}): a later song replaces an earlier one of
\* the same id.
songs_to_dict(songs) ==
    [k \in {songid(songs[i]) : i \in DOMAIN songs} |->
        songs[CHOOSE i \in DOMAIN songs :
                /\ songid(songs[i]) = k
                /\ \A j \in DOMAIN songs : songid(songs[j]) = k => j <= i]]

RECURSIVE mmw_walk(_, _)
\* The loop of get_mmw_tracks over songs: raised when tracks_dict[id] is a
\* KeyError, the loop then having stopped.
mmw_walk(songs, tracks_dict) ==
    IF songs = <<>> THEN [raised |-> FALSE, tracks |-> <<>>, seen |-> {}]
    ELSE LET r == mmw_walk(SubSeq(songs, 1, Len(songs) - 1), tracks_dict)
             id == songid(songs[Len(songs)])
         IN IF r.raised \/ id \in r.seen THEN r
            ELSE IF id \notin DOMAIN tracks_dict THEN [r EXCEPT !.raised = TRUE]
            ELSE [raised |-> FALSE,
                  tracks |-> Append(r.tracks, tracks_dict[id]),
                  seen |-> r.seen \cup {id}]

RECURSIVE mmw_walk_unseen(_, _)
\* The loop without its test of seen: every entry is appended.
mmw_walk_unseen(songs, tracks_dict) ==
    IF songs = <<>> THEN [raised |-> FALSE, tracks |-> <<>>, seen |-> {}]
    ELSE LET r == mmw_walk_unseen(SubSeq(songs, 1, Len(songs) - 1), tracks_dict)
             id == songid(songs[Len(songs)])
         IN IF r.raised THEN r
            ELSE IF id \notin DOMAIN tracks_dict THEN [r EXCEPT !.raised = TRUE]
            ELSE [raised |-> FALSE,
                  tracks |-> Append(r.tracks, tracks_dict[id]),
                  seen |-> r.seen \cup {id}]

get_mmw_tracks_keeping_duplicates(songs, tracks_dict) ==
    mmw_walk_unseen(songs, tracks_dict)

\* Lines 300-308.
get_mmw_tracks(songs, tracks_dict) == mmw_walk(songs, tracks_dict)

\* reduce(lambda x, y: x + y, map(lambda x: x['tracks'], playlists))
RECURSIVE concat_tracks(_)
concat_tracks(playlists) ==
    IF playlists = <<>> THEN <<>>
    ELSE concat_tracks(SubSeq(playlists, 1, Len(playlists) - 1))
            \o playlists[Len(playlists)].tracks

\* The filter with the threshold off by one.
rated_from_three(all_songs) == SelectSeq(all_songs, LAMBDA t : t.rating >= 3)

\* thumbs_up = [t for t in all_songs if int(t['rating']) > 3]
rated_up(all_songs) == SelectSeq(all_songs, LAMBDA t : t.rating > 3)

\* thumbs_up.sort(key=lambda song: int(lastModifiedTimestamp) * -1)
sort_most_recent_first(songs) ==
    Items(SortPairs([i \in DOMAIN songs |->
                        <<songs[i].lastModifiedTimestamp * (-1), songs[i]>>]))

thumbs_up_of(all_songs) == sort_most_recent_first(rated_up(all_songs))

\* songs_to_download.sort(key=(artist, album, track_number)): by metadata.
sort_for_download(songs) ==
    Items(SortPairs([i \in DOMAIN songs |-> <<songs[i].tag, songs[i]>>]))

\* songs_to_upload.sort(): local songs are path strings.
sort_paths(songs) ==
    Items(SortPairs([i \in DOMAIN songs |-> <<songs[i].path, songs[i]>>]))

IdsOf(songs) == {songid(songs[i]) : i \in DOMAIN songs}
PathsOf(songs) == {songs[i].path : i \in DOMAIN songs}

\* ------------------------------------------------------------------ state
VARIABLES
    pc,          \* the statement of main() the run is at
    exc,         \* the uncaught exception that ended the run and where it rose
    exitStatus,  \* the process exit status; -1 while the process runs
    cli,         \* the parsed command line (docopt)
    account,     \* the remote account: what the two remote views return
    fs,          \* the audio files under the scanned base path: path -> tags
    removedDir,  \* the files under the removed directory: relative path -> tags
    auth,        \* is_authenticated of the two clients after their login
    google,      \* matched_google_songs, filtered_google_songs
    local,       \* matched_local_songs, songs_to_filter, songs_to_exclude, songs_to_upload
    mc,          \* all_songs, playlists, playlist_tracks, thumbs_up, thumbs_up_tracks
    ops,         \* history: the transport and file operations executed so far
    steps,       \* history: the reconciliation steps executed so far
    phases,      \* history: the calls of download_missing_google_songs so far
    snap         \* history: fs when the removed-file step began

vars == <<pc, exc, exitStatus, cli, account, fs, removedDir, auth, google, local,
          mc, ops, steps, phases, snap>>

\* ------------------------------------------------------- input universes
\* Local files: a file at a template path carries the tags that resolve to it.
FileSystems ==
    {f \in UNION {[S -> Tags] : S \in SUBSET Paths} :
        \A p \in DOMAIN f : p > NumOther => template_to_filepath(f[p]) = p}

\* -e PATTERN: the paths the exclude patterns match; at most one here.
Excludes == {{}} \cup {{p} : p \in Paths}

\* A playlist entry refers to its track by trackId; id is the entry's own.
PlaylistEntry(t) == [id |-> NumIds + t, trackId |-> t]

MobileSong(i, r, ts) == [id |-> i, rating |-> r, lastModifiedTimestamp |-> ts]

RECURSIVE SongLists(_, _, _)
\* get_all_songs(): at most one song per id, in ascending order of id; the
\* lists over the ids from i on.
SongLists(i, ratings, stamps) ==
    IF i > NumIds THEN {<<>>}
    ELSE LET rest == SongLists(i + 1, ratings, stamps)
         IN rest \cup {<<MobileSong(i, r, ts)>> \o l :
                          r \in ratings, ts \in stamps, l \in rest}

\* The mobile-client view holds every song of the library (the two views
\* share the identifier) and may hold songs the music manager does not serve.
AllSongsChoices(library, ratings, maxStamp) ==
    {l \in SongLists(1, ratings, 1 .. maxStamp) :
        library \subseteq {l[i].id : i \in DOMAIN l}}

\* get_all_user_playlist_contents(): playlists named by their position.
PlaylistChoices(maxLists, maxTracks) ==
    LET tracks == SeqsUpTo({PlaylistEntry(t) : t \in Ids}, maxTracks)
    IN {[i \in DOMAIN ts |-> [name |-> i, tracks |-> ts[i]]] :
            ts \in SeqsUpTo(tracks, maxLists)}

NoFiles == [p \in {} |-> 1]

NoException == [type |-> "none", at |-> "none"]

NoOps ==
    [uploaded |-> {}, downloaded |-> <<>>, failed |-> {}, moved |-> {},
     deleted |-> {}, libDeleted |-> {}, written |-> {}, dirs |-> {},
     cleaned |-> FALSE]

NoMobile ==
    [all_songs |-> <<>>, playlists |-> <<>>, playlist_tracks |-> <<>>,
     thumbs_up |-> <<>>, thumbs_up_tracks |-> <<>>]

\* The process as main() is entered.
Fresh ==
    /\ pc = "start"
    /\ exc = NoException
    /\ exitStatus = -1
    /\ removedDir = NoFiles
    /\ auth = [mmw |-> "none", mcw |-> "none"]
    /\ google = [matched |-> <<>>, filtered |-> <<>>]
    /\ local = [matched |-> <<>>, filtered |-> <<>>, excluded |-> <<>>, upload |-> <<>>]
    /\ mc = NoMobile
    /\ ops = NoOps
    /\ steps = {}
    /\ phases = {}
    /\ snap = NoFiles

\* ---------------------------------------------------------------- actions
\* An uncaught exception ends the process with a traceback and status 1.
Raise(e) ==
    /\ pc' = "raised"
    /\ exc' = [type |-> e, at |-> pc]
    /\ exitStatus' = 1

\* sys.exit() with no argument: SystemExit(None), exit status 0.
SysExit ==
    /\ pc' = "exited"
    /\ exc' = exc
    /\ exitStatus' = 0

Goto(next) ==
    /\ pc' = next
    /\ exc' = exc
    /\ exitStatus' = exitStatus

AfterLogin == IF cli.down THEN "down_fetch" ELSE "up_reconcile"

\* Line 184, pp.pprint(cli): the module binds no name pp, so the call raises
\* NameError unless the embedding environment has bound pp.
DebugPrint ==
    /\ pc = "start"
    /\ \E bound \in BOOLEAN :
          IF bound THEN Goto("mmw_login") ELSE Raise("NameError")
    /\ UNCHANGED <<cli, account, fs, removedDir, auth, google, local, mc, ops,
                   steps, phases, snap>>

\* Lines 205-209: the music-manager login, and the exit when it failed.
MmwLogin ==
    /\ pc = "mmw_login"
    /\ \E ok \in BOOLEAN :
          /\ auth' = [auth EXCEPT !.mmw = IF ok THEN "ok" ELSE "failed"]
          /\ IF ~ok THEN SysExit
             ELSE IF cli.playlists THEN Goto("mcw_login")
             ELSE Goto(AfterLogin)
    /\ UNCHANGED <<cli, account, fs, removedDir, google, local, mc, ops, steps,
                   phases, snap>>

\* The mobile-client login with the test of is_authenticated left out.
McwLogin_NoExit ==
    /\ pc = "mcw_login"
    /\ \E ok \in BOOLEAN :
          /\ auth' = [auth EXCEPT !.mcw = IF ok THEN "ok" ELSE "failed"]
          /\ Goto(AfterLogin)
    /\ UNCHANGED <<cli, account, fs, removedDir, google, local, mc, ops, steps,
                   phases, snap>>

\* Lines 211-217: the mobile-client login (only when playlists are asked for),
\* and the exit when it failed.
McwLogin ==
    /\ pc = "mcw_login"
    /\ \E ok \in BOOLEAN :
          /\ auth' = [auth EXCEPT !.mcw = IF ok THEN "ok" ELSE "failed"]
          /\ IF ~ok THEN SysExit ELSE Goto(AfterLogin)
    /\ UNCHANGED <<cli, account, fs, removedDir, google, local, mc, ops, steps,
                   phases, snap>>

\* Lines 220-225: mmw.get_google_songs with the command line's filters.
DownFetch ==
    /\ pc = "down_fetch"
    /\ google' = [matched |-> [i \in DOMAIN SeqOfSet(account.songs \ account.rejected) |->
                                  GoogleSong(SeqOfSet(account.songs \ account.rejected)[i])],
                  filtered |-> [i \in DOMAIN SeqOfSet(account.rejected) |->
                                  GoogleSong(SeqOfSet(account.rejected)[i])]]
    /\ steps' = steps \cup {"fetch"}
    /\ Goto("dl_library")
    /\ UNCHANGED <<cli, account, fs, removedDir, auth, local, mc, ops, phases, snap>>

Without(files, gone) == [p \in DOMAIN files \ gone |-> files[p]]

\* mmw.download(songs, template): each song of ok is written to the path the
\* template resolves its metadata to; the others fail.
Downloaded(files, songs, ok) ==
    LET new == {songs[i] : i \in {j \in DOMAIN songs : songs[j].id \in ok}}
        target == {template_to_filepath(s.tag) : s \in new}
    IN [p \in DOMAIN files \cup target |->
            IF p \in target
            THEN (CHOOSE s \in new : template_to_filepath(s.tag) = p).tag
            ELSE files[p]]

\* The local songs as scanned before this run's downloads: the scan without
\* the files the run has written.
StaleLocalSongs ==
    LET written == {template_to_filepath(TagOf(ops.downloaded[i])) :
                       i \in {j \in DOMAIN ops.downloaded :
                                 ops.downloaded[j] \notin ops.failed}}
    IN get_local_songs(Without(fs, written), cli.exclude, {}).matched

\* The local songs download_missing_google_songs compares against: a fresh
\* scan of the base path (line 250).
RescannedLocalSongs == get_local_songs(fs, cli.exclude, {}).matched

\* Lines 228-254: download_missing_google_songs(mmw_songs), with download_songs.
DownloadMissing(mmw_songs, phase, next) ==
    LET missing == compare_song_collections(mmw_songs, RescannedLocalSongs, fs)
        songs_to_download == sort_for_download(missing)
        handed == [i \in DOMAIN songs_to_download |-> songs_to_download[i].id]
    IN /\ steps' = steps \cup {"scan", "compare"}
       /\ phases' = phases \cup {[phase |-> phase, ids |-> IdsOf(mmw_songs),
                                   missing |-> Range(handed)]}
       /\ IF cli.dryRun \/ songs_to_download = <<>>
          THEN UNCHANGED <<fs, ops>>
          ELSE \E ok \in SUBSET Range(handed) :
                  /\ fs' = Downloaded(fs, songs_to_download, ok)
                  /\ ops' = [ops EXCEPT !.downloaded = @ \o handed,
                                        !.failed = @ \cup (Range(handed) \ ok)]
       /\ Goto(next)

\* Lines 256-257: the library songs.
FetchLibrarySongs ==
    /\ pc = "dl_library"
    /\ DownloadMissing(google.matched, "library", "removed")
    /\ UNCHANGED <<cli, account, removedDir, auth, google, local, mc, snap>>

\* The comparison against the matched remote songs only.
SongsToMove_MatchedOnly ==
    LET scan == get_local_songs(fs, cli.exclude, {})
        all_local_songs == scan.matched \o scan.filtered \o scan.excluded
    IN compare_song_collections(all_local_songs, google.matched, fs)

\* Lines 266-269: the local songs of every bucket that no remote song, matched
\* or filtered, has the metadata of.
SongsToMove ==
    LET scan == get_local_songs(fs, cli.exclude, {})
        all_local_songs == scan.matched \o scan.filtered \o scan.excluded
        all_google_songs == google.matched \o google.filtered
    IN compare_song_collections(all_local_songs, all_google_songs, fs)

\* Lines 259-282: the removed-file step, then the test of cli['playlists'].
\* The step does not look at cli['dry-run'].
RemovedStep ==
    /\ pc = "removed"
    /\ IF cli.removed
       THEN LET gone == PathsOf(SongsToMove)
            IN /\ snap' = fs
               /\ fs' = Without(fs, gone)
               /\ removedDir' = [p \in DOMAIN removedDir \cup gone |->
                                    IF p \in gone THEN fs[p] ELSE removedDir[p]]
               /\ ops' = [ops EXCEPT !.moved = @ \cup gone,
                                     !.dirs = @ \cup {"removed"},
                                     !.cleaned = TRUE]
               /\ steps' = steps \cup {"scan", "compare"}
       ELSE UNCHANGED <<snap, fs, removedDir, ops, steps>>
    /\ Goto(IF cli.playlists THEN "sync_playlists" ELSE "logout")
    /\ UNCHANGED <<cli, account, auth, google, local, mc, phases>>

\* Line 296: the lookup of the music-manager songs, matched and filtered.
tracks_dict == songs_to_dict(google.matched \o google.filtered)

\* Line 295: the lookup of the mobile-client songs.
songs_dict == songs_to_dict(mc.all_songs)

\* Lines 283-342: the mobile-client song list, the playlists directory and
\* the playlists with their ordered entries.
SyncPlaylists ==
    /\ pc = "sync_playlists"
    /\ \E all_songs \in AllSongsChoices(account.songs, Ratings, MaxStamp),
          playlists \in PlaylistChoices(1, MaxTracks) :
          mc' = [mc EXCEPT !.all_songs = all_songs, !.playlists = playlists]
    /\ ops' = [ops EXCEPT !.dirs = @ \cup {"playlists"}]
    /\ steps' = steps \cup {"fetch"}
    /\ Goto("resolve_playlists")
    /\ UNCHANGED <<cli, account, fs, removedDir, auth, google, local, phases, snap>>

\* Lines 344-346: the entries of all playlists, concatenated, deduplicated and
\* resolved to music-manager songs; next is where the run goes on.
ResolvePlaylistsThen(next) ==
    /\ pc = "resolve_playlists"
    /\ LET resolved == get_mmw_tracks(concat_tracks(mc.playlists), tracks_dict)
       IN /\ mc' = [mc EXCEPT !.playlist_tracks =
                                  IF resolved.raised THEN @ ELSE resolved.tracks]
          /\ IF resolved.raised THEN Raise("KeyError") ELSE Goto(next)
    /\ UNCHANGED <<cli, account, fs, removedDir, auth, google, local, ops, steps,
                   phases, snap>>

\* The playlist files written before the playlist songs are fetched.
ResolvePlaylists_WriteFirst == ResolvePlaylistsThen("write_playlists")

ResolvePlaylists == ResolvePlaylistsThen("dl_playlists")

\* Lines 348-349: the playlist songs.
FetchPlaylistSongs ==
    /\ pc = "dl_playlists"
    /\ DownloadMissing(mc.playlist_tracks, "playlists", "write_playlists")
    /\ UNCHANGED <<cli, account, removedDir, auth, google, local, mc, snap>>

\* Lines 315-338, create_playlist_file: outside a dry run the file's lines are
\* built from songs_dict[songid(track)], a KeyError for a track the
\* mobile-client song list does not hold.
create_playlist_file_raises(songs) ==
    /\ ~cli.dryRun
    /\ \E i \in DOMAIN songs : songid(songs[i]) \notin DOMAIN songs_dict

PlaylistFile(kind, index, songs) ==
    [kind |-> kind, index |-> index,
     ids |-> [i \in DOMAIN songs |-> songid(songs[i])]]

\* Lines 351-352: one file per playlist, in order, up to the first that raises.
WritePlaylists ==
    /\ pc = "write_playlists"
    /\ LET bad == {i \in DOMAIN mc.playlists :
                      create_playlist_file_raises(mc.playlists[i].tracks)}
           done == {i \in DOMAIN mc.playlists : \A b \in bad : i < b}
       IN /\ ops' = [ops EXCEPT !.written = @ \cup
                        IF cli.dryRun THEN {}
                        ELSE {PlaylistFile("playlist", i, mc.playlists[i].tracks) :
                                 i \in done}]
          /\ IF bad # {} THEN Raise("KeyError") ELSE Goto("favorites")
    /\ UNCHANGED <<cli, account, fs, removedDir, auth, google, local, mc, steps,
                   phases, snap>>

\* Lines 354-361: the favorited songs, most recent first, and their resolution.
FavoritesThen(next) ==
    /\ pc = "favorites"
    /\ LET thumbs_up == thumbs_up_of(mc.all_songs)
           resolved == get_mmw_tracks(thumbs_up, tracks_dict)
       IN /\ mc' = [mc EXCEPT !.thumbs_up = thumbs_up,
                              !.thumbs_up_tracks =
                                  IF resolved.raised THEN @ ELSE resolved.tracks]
          /\ IF resolved.raised THEN Raise("KeyError") ELSE Goto(next)
    /\ UNCHANGED <<cli, account, fs, removedDir, auth, google, local, ops, steps,
                   phases, snap>>

Favorites == FavoritesThen("dl_favorites")

\* Lines 363-364: the favorited songs.
FetchFavoritedSongs ==
    /\ pc = "dl_favorites"
    /\ DownloadMissing(mc.thumbs_up_tracks, "favorites", "write_favorites")
    /\ UNCHANGED <<cli, account, removedDir, auth, google, local, mc, snap>>

\* Lines 355 and 366: docopt gives cli the key 'favorites' always, None when
\* --favorites was not given, and line 316 then raises TypeError on
\* name + '.m3u'.  The option is read nowhere else, so it is drawn here.
WriteFavorites ==
    /\ pc = "write_favorites"
    /\ \E favorites \in BOOLEAN :
          /\ ops' = [ops EXCEPT !.written = @ \cup
                        IF favorites /\ ~cli.dryRun
                        THEN {PlaylistFile("favorites", 0, mc.thumbs_up)} ELSE {}]
          /\ IF favorites THEN Goto("logout") ELSE Raise("TypeError")
    /\ UNCHANGED <<cli, account, fs, removedDir, auth, google, local, mc, steps,
                   phases, snap>>

\* Lines 429-431.
Logout ==
    /\ pc = "logout"
    /\ pc' = "done"
    /\ exitStatus' = 0
    /\ UNCHANGED <<exc, cli, account, fs, removedDir, auth, google, local, mc, ops,
                   steps, phases, snap>>

RemoteSongs(S) == [i \in DOMAIN SeqOfSet(S) |-> GoogleSong(SeqOfSet(S)[i])]

\* Lines 369-385: the up command fetches every remote song (no filters), scans
\* the input with the command line's filters and patterns, and compares.
UpReconcile ==
    /\ pc = "up_reconcile"
    /\ LET matched_google_songs == RemoteSongs(account.songs)
           scan == get_local_songs(fs, cli.exclude, cli.rejected)
           songs_to_upload ==
               compare_song_collections(scan.matched, matched_google_songs, fs)
       IN /\ google' = [matched |-> matched_google_songs, filtered |-> <<>>]
          /\ local' = [matched |-> scan.matched,
                       filtered |-> scan.filtered,
                       excluded |-> sort_paths(scan.excluded),
                       upload |-> sort_paths(songs_to_upload)]
    /\ steps' = steps \cup {"fetch", "scan", "compare"}
    /\ Goto("up_act")
    /\ UNCHANGED <<cli, account, fs, removedDir, auth, mc, ops, phases, snap>>

\* Line 417, mmw.upload(songs, delete_on_success=...): the songs of ok are
\* uploaded, and removed by the transport when asked to.
Upload ==
    \E ok \in SUBSET PathsOf(local.upload) :
        /\ fs' = IF cli.deleteOnSuccess THEN Without(fs, ok) ELSE fs
        /\ ops' = [ops EXCEPT !.uploaded = @ \cup PathsOf(local.upload),
                              !.libDeleted = @ \cup
                                  IF cli.deleteOnSuccess THEN ok ELSE {}]

\* Lines 423-427: os.remove of every matched local song; a failure is logged.
DeleteLoop ==
    \E failing \in SUBSET PathsOf(local.matched) :
        LET gone == PathsOf(local.matched) \ failing
        IN /\ fs' = Without(fs, gone)
           /\ ops' = [ops EXCEPT !.deleted = @ \cup
                                    {[path |-> p, tag |-> fs[p]] : p \in gone}]

\* The deletion loop outside the else of "if songs_to_upload".
UpAct_LoopAlways ==
    /\ pc = "up_act"
    /\ IF cli.dryRun THEN UNCHANGED <<fs, ops>>
       ELSE IF cli.deleteOnSuccess THEN DeleteLoop
       ELSE IF local.upload # <<>> THEN Upload
       ELSE UNCHANGED <<fs, ops>>
    /\ Goto("logout")
    /\ UNCHANGED <<cli, account, removedDir, auth, google, local, mc, steps,
                   phases, snap>>

\* Lines 387-427: report in a dry run; else upload the missing songs, or, when
\* none is missing and --delete-on-success is set, delete the matched ones.
UpAct ==
    /\ pc = "up_act"
    /\ IF cli.dryRun THEN UNCHANGED <<fs, ops>>
       ELSE IF local.upload # <<>> THEN Upload
       ELSE IF cli.deleteOnSuccess THEN DeleteLoop
       ELSE UNCHANGED <<fs, ops>>
    /\ Goto("logout")
    /\ UNCHANGED <<cli, account, removedDir, auth, google, local, mc, steps,
                   phases, snap>>

\* ------------------------------------------------------------------ runs
Cli(down, dry, playlists, removed, delete, exclude, rejected) ==
    [down |-> down, dryRun |-> dry, playlists |-> playlists, removed |-> removed,
     deleteOnSuccess |-> delete, exclude |-> exclude, rejected |-> rejected]

Account(songs, rejected) == [songs |-> songs, rejected |-> rejected]

\* gmsync up: local filters, no remote filters; with -p the mobile client is
\* only logged in to.
InitUp ==
    /\ \E dry, playlists, delete \in BOOLEAN, exclude \in Excludes,
          rejected \in SUBSET Tags :
          cli = Cli(FALSE, dry, playlists, FALSE, delete, exclude, rejected)
    /\ \E songs \in SUBSET Ids : account = Account(songs, {})
    /\ fs \in FileSystems

\* gmsync down without -p: remote filters, the removed-file step.
InitDown ==
    /\ \E dry, removed \in BOOLEAN, exclude \in Excludes :
          cli = Cli(TRUE, dry, FALSE, removed, FALSE, exclude, {})
    /\ \E songs \in SUBSET Ids : \E rejected \in SUBSET songs :
          account = Account(songs, rejected)
    /\ fs \in FileSystems

\* gmsync down -p: playlists and favorites as well.  The local files are the
\* ones an earlier run left at the first template path, if any; the
\* removed-file step, which runs before the playlists are looked at, is left
\* to the runs without -p.
InitPlaylists ==
    /\ \E dry \in BOOLEAN, exclude \in {{}, {template_to_filepath(1)}} :
          cli = Cli(TRUE, dry, TRUE, FALSE, FALSE, exclude, {})
    /\ \E songs \in SUBSET Ids : \E rejected \in SUBSET songs :
          account = Account(songs, rejected)
    /\ fs \in {f \in FileSystems : DOMAIN f \subseteq {template_to_filepath(1)}}

Init ==
    /\ Fresh
    /\ InitUp \/ InitDown \/ InitPlaylists

Next ==
    \/ DebugPrint
    \/ MmwLogin
    \/ McwLogin
    \/ DownFetch
    \/ FetchLibrarySongs
    \/ RemovedStep
    \/ SyncPlaylists
    \/ ResolvePlaylists
    \/ FetchPlaylistSongs
    \/ WritePlaylists
    \/ Favorites
    \/ FetchFavoritedSongs
    \/ WriteFavorites
    \/ Logout
    \/ UpReconcile
    \/ UpAct

Spec == Init /\ [][Next]_vars

\* ------------------------------------------------------ one command each
\* The up command on its own (without -p).
InitUpOnly == Fresh /\ InitUp /\ ~cli.playlists

NextUp == DebugPrint \/ MmwLogin \/ UpReconcile \/ UpAct \/ Logout

SpecUp == InitUpOnly /\ [][NextUp]_vars

\* The down command on its own (without -p).
InitDownOnly == Fresh /\ InitDown

NextDown ==
    DebugPrint \/ MmwLogin \/ DownFetch \/ FetchLibrarySongs \/ RemovedStep \/ Logout

SpecDown == InitDownOnly /\ [][NextDown]_vars

\* ------------------------------------------------- the deriver on its own
\* The two derivations of lines 344-346 and 357-361 applied to larger inputs:
\* the run is past its fetches, with any library, and either playlists of up
\* to DeepTracks entries or a mobile-client song list with any ratings and
\* timestamps.
InitDeriver ==
    /\ exc = NoException
    /\ exitStatus = -1
    /\ removedDir = NoFiles
    /\ fs = NoFiles
    /\ snap = NoFiles
    /\ auth = [mmw |-> "ok", mcw |-> "ok"]
    /\ local = [matched |-> <<>>, filtered |-> <<>>, excluded |-> <<>>, upload |-> <<>>]
    /\ cli = Cli(TRUE, TRUE, TRUE, FALSE, FALSE, {}, {})
    /\ ops = [NoOps EXCEPT !.dirs = {"playlists"}]
    /\ steps = {"fetch", "scan", "compare"}
    /\ \E songs \in SUBSET Ids : \E rejected \in SUBSET songs :
          /\ account = Account(songs, rejected)
          /\ google = [matched |-> RemoteSongs(songs \ rejected),
                       filtered |-> RemoteSongs(rejected)]
          /\ phases = {[phase |-> "library", ids |-> songs \ rejected,
                        missing |-> songs \ rejected]}
          /\ \/ /\ pc = "resolve_playlists"
                /\ \E playlists \in PlaylistChoices(1, DeepTracks)
                                       \cup PlaylistChoices(2, 2) :
                      mc = [NoMobile EXCEPT !.playlists = playlists]
             \/ /\ pc = "favorites"
                /\ rejected = {}
                /\ \E k \in 0 .. NumIds : songs = 1 .. k
                /\ \E all_songs \in SongLists(1, DeepRatings, 1 .. DeepStamp) :
                      mc = [NoMobile EXCEPT !.all_songs = all_songs]

NextDeriver == ResolvePlaylists \/ Favorites

SpecDeriver == InitDeriver /\ [][NextDeriver]_vars

\* ----------------------------------------------------------------- claims
AuthFailed == auth.mmw = "failed" \/ auth.mcw = "failed"

RemoteTags == {s.tag : s \in Range(google.matched \o google.filtered)}

UnresolvableIn(songs) == \E i \in DOMAIN songs : songid(songs[i]) \notin DOMAIN tracks_dict

\* C1: a playlist entry or a favorited song whose identifier is not a key of
\* the music-manager lookup is left out of the resolved list and never makes
\* the run abort: with such an entry among the fetched playlists, or such a
\* song among the favorited ones, no KeyError ends the run.
C1_UnresolvableSkipped ==
    (UnresolvableIn(concat_tracks(mc.playlists)) \/ UnresolvableIn(mc.thumbs_up))
        => ~(pc = "raised" /\ exc.type = "KeyError")

\* C2: a run with --dry-run executes no transport or file operation: no
\* upload, no download, no local file moved or deleted, no playlist file
\* written.
C2_DryRunNoOperation ==
    cli.dryRun =>
        /\ ops.uploaded = {}
        /\ ops.downloaded = <<>>
        /\ ops.moved = {}
        /\ ops.deleted = {}
        /\ ops.libDeleted = {}
        /\ ops.written = {}

\* C3: when a login leaves its client unauthenticated, the run has ended at
\* sys.exit() with no remote song fetch, no local scan, no comparison and no
\* upload, download, move, delete or playlist write.
C3_AuthFailureBeforeReconciliation ==
    AuthFailed => (pc = "exited" /\ steps = {} /\ ops = NoOps)

\* C3 witness: the mobile-client login failed after the music-manager login
\* succeeded, and the run has ended.
C3_Witness == auth.mmw = "ok" /\ auth.mcw = "failed" /\ pc = "exited"

\* C4: the exit status is non-zero whenever the run ended because of an
\* authentication failure.  (The claim's other half, status zero for every
\* other run, fails as well: an uncaught exception ends a run with status 1.)
C4_AuthFailureExitsNonZero ==
    (pc = "exited" /\ AuthFailed) => exitStatus # 0

\* ------------------------------------------------------------ the deriver
PlaylistEntries == concat_tracks(mc.playlists)

EntryIds == [i \in DOMAIN PlaylistEntries |-> songid(PlaylistEntries[i])]

ResolvedIds == [k \in DOMAIN mc.playlist_tracks |-> mc.playlist_tracks[k].id]

FirstAt(ids, x) == CHOOSE i \in DOMAIN ids : ids[i] = x /\ \A j \in 1 .. (i - 1) : ids[j] # x

PlaylistsResolved ==
    pc = "dl_playlists" \/ (pc = "raised" /\ exc.at = "resolve_playlists")

\* C5: when every playlist entry's identifier (trackId if present, else id)
\* resolves, get_mmw_tracks returns, without raising, the music-manager song
\* of each identifier of the input exactly once, in the order in which the
\* identifiers first occur in the input.
C5_FirstOccurrenceOrder ==
    (PlaylistsResolved /\ ~UnresolvableIn(PlaylistEntries)) =>
        /\ pc = "dl_playlists"
        /\ \A k \in DOMAIN ResolvedIds :
              mc.playlist_tracks[k] = tracks_dict[ResolvedIds[k]]
        /\ Range(ResolvedIds) = Range(EntryIds)
        /\ \A k, l \in DOMAIN ResolvedIds :
              k < l => /\ ResolvedIds[k] # ResolvedIds[l]
                       /\ FirstAt(EntryIds, ResolvedIds[k]) < FirstAt(EntryIds, ResolvedIds[l])

\* C5 witness: the entries [1, 2, 1, 3] resolved to the songs [1, 2, 3].
C5_Witness ==
    /\ pc = "dl_playlists"
    /\ EntryIds = <<1, 2, 1, 3>>
    /\ ResolvedIds = <<1, 2, 3>>

FavoritesDerived ==
    pc = "dl_favorites" \/ (pc = "raised" /\ exc.at = "favorites")

\* C6: the favorites list holds exactly the songs of the mobile-client song
\* list whose rating is greater than 3, each once, a later-modified song
\* never after an earlier-modified one.
C6_FavoritesRatedAndRecentFirst ==
    FavoritesDerived =>
        /\ Range(mc.thumbs_up) = {t \in Range(mc.all_songs) : t.rating > 3}
        /\ Len(mc.thumbs_up) = Cardinality(Range(mc.thumbs_up))
        /\ \A k, l \in DOMAIN mc.thumbs_up :
              k < l => mc.thumbs_up[k].lastModifiedTimestamp
                           >= mc.thumbs_up[l].lastModifiedTimestamp

\* C6 witness: songs modified at [1, 3, 2], all rated above 3, come out in
\* the order [3, 2, 1].
C6_Witness ==
    /\ FavoritesDerived
    /\ Len(mc.all_songs) = 3
    /\ \A i \in 1 .. 3 : mc.all_songs[i].rating > 3
    /\ [i \in 1 .. 3 |-> mc.all_songs[i].lastModifiedTimestamp] = <<1, 3, 2>>
    /\ [i \in DOMAIN mc.thumbs_up |-> mc.thumbs_up[i].lastModifiedTimestamp] = <<3, 2, 1>>

\* ------------------------------------------------------------- the phases
PhaseOf(file) == IF file.kind = "playlist" THEN "playlists" ELSE "favorites"

\* C7: every playlist file that has been written, a user playlist's or the
\* favorites', was written after download_missing_google_songs was called
\* with the resolved tracks of that file: the tracks have been compared with
\* the local songs and the missing ones handed to the download.
C7_DownloadBeforePlaylistFile ==
    \A file \in ops.written :
        \E ph \in phases :
            /\ ph.phase = PhaseOf(file)
            /\ Range(file.ids) \subseteq ph.ids
            /\ ph.missing \subseteq Range(ops.downloaded)

\* C7 witness: a playlist file and the favorites file have been written, each
\* with a track that its phase found missing and handed to the download.
C7_Witness ==
    \A kind \in {"playlist", "favorites"} :
        \E file \in ops.written, ph \in phases :
            /\ file.kind = kind
            /\ ph.phase = PhaseOf(file)
            /\ Range(file.ids) \cap ph.missing # {}

RemovedStepDone == cli.removed /\ pc \in {"logout", "done"}

\* C8: after the removed-file step of a down run, a file that was under the
\* base path, in whichever bucket, has been moved exactly when no remote
\* song, matched or filtered, has its metadata; a moved file is gone from its
\* path and is under the removed directory at the same relative path, and a
\* file whose metadata a remote song has is where it was.
C8_MovedIffAbsentRemotely ==
    RemovedStepDone =>
        /\ ops.moved \subseteq DOMAIN snap
        /\ \A p \in DOMAIN snap :
              /\ (p \in ops.moved) <=> (snap[p] \notin RemoteTags)
              /\ p \in ops.moved =>
                    (p \notin DOMAIN fs /\ p \in DOMAIN removedDir /\ removedDir[p] = snap[p])
              /\ snap[p] \in RemoteTags => (p \in DOMAIN fs /\ fs[p] = snap[p])

\* C8 witness: an excluded file was moved, and another file, whose metadata
\* only a filtered remote song has, was kept.
C8_Witness ==
    /\ RemovedStepDone
    /\ \E p \in ops.moved : p \in cli.exclude
    /\ \E q \in DOMAIN snap \ ops.moved :
          snap[q] \notin {s.tag : s \in Range(google.matched)}

DownloadsFound ==
    /\ ops.failed = {}
    /\ \A id \in Range(ops.downloaded) : template_to_filepath(TagOf(id)) \notin cli.exclude

\* C9: in a run that is not a dry run, as long as every download succeeded
\* and the downloaded files are not excluded from the local scan, no song has
\* been handed to the download more than once over the library, playlist and
\* favorites phases.
C9_NoSongDownloadedTwice ==
    (cli.down /\ ~cli.dryRun /\ DownloadsFound) =>
        \A i, j \in DOMAIN ops.downloaded :
            ops.downloaded[i] = ops.downloaded[j] => i = j

\* C9 witness: a song downloaded in the library phase is also a playlist
\* track and a favorited song, and the run went through all three phases.
C9_Witness ==
    /\ pc = "done"
    /\ ~cli.dryRun
    /\ DownloadsFound
    /\ \E ph \in phases, id \in Ids :
          /\ ph.phase = "library"
          /\ id \in ph.missing
          /\ id \in IdsOf(mc.playlist_tracks)
          /\ id \in IdsOf(mc.thumbs_up_tracks)

\* C10: the deletion loop of an up run has removed a file only in a run that
\* is not a dry run, has --delete-on-success and found nothing to upload; a
\* removed file is a matched local song whose metadata a remote song has,
\* never a filtered or an excluded one.
C10_DeleteLoopOnlyAfterFullMatch ==
    ops.deleted # {} =>
        /\ ~cli.down /\ ~cli.dryRun /\ cli.deleteOnSuccess
        /\ local.upload = <<>>
        /\ \A d \in ops.deleted :
              /\ d.path \in PathsOf(local.matched)
              /\ d.tag \in {s.tag : s \in Range(google.matched)}
              /\ d.path \notin PathsOf(local.filtered) \cup PathsOf(local.excluded)
              /\ d.path \notin cli.exclude
              /\ d.tag \notin cli.rejected

\* C10 witness: the loop removed a file while a filtered and an excluded
\* local song stayed on disk.
C10_Witness ==
    /\ ops.deleted # {}
    /\ \E p \in PathsOf(local.filtered) : p \in DOMAIN fs
    /\ \E p \in PathsOf(local.excluded) : p \in DOMAIN fs

====
